---- MODULE Spec2Model ----
(***************************************************************************)
(* RSAES-PKCS1-v1_5 encryption and decryption as implemented in            *)
(* lib/Crypto/Cipher/PKCS1_v1_5.py.                                        *)
(*                                                                         *)
(* Byte strings are sequences of integers in 0..255.  Python's 0-based     *)
(* index i of a string s is s[i+1] here.  Python long integers are         *)
(* unbounded; they are kept as their canonical big-endian base-256 digit   *)
(* sequence (no leading zero digit, the number 0 being the empty           *)
(* sequence), so that no machine width is imposed on them.                 *)
(***************************************************************************)
EXTENDS Integers, Sequences, FiniteSets, TLC

VARIABLES
    key,        \* the RSA key object of the session
    pc,         \* position of the caller / of encrypt
    message,    \* encrypt: argument message
    k,          \* encrypt: modulus size in bytes
    mLen,       \* encrypt: len(message)
    raw,        \* encrypt: bytes of randFunc(k-mLen-3) not yet mapped
    cur,        \* nonZeroRandByte.__call__: its local c (-1 outside a call)
    ps,         \* encrypt: the bytes map() has produced so far
    em,         \* encrypt: the encoded block handed to key.encrypt
    c,          \* encrypt: the returned ciphertext
    encOutcome, \* encrypt: "none", "return" or "ValueError"
    drawn,      \* number of bytes randFunc has returned so far
    zeroDraws,  \* number of 0x00 bytes randFunc has returned so far
    ct,         \* decrypt: argument ct
    sentinel,   \* decrypt: argument sentinel
    dec,        \* decrypt: its outcome and locals
    chained     \* TRUE when decrypt was given the ciphertext encrypt returned

vars == <<key, pc, message, k, mLen, raw, cur, ps, em, c, encOutcome, drawn,
          zeroDraws, ct, sentinel, dec, chained>>

-----------------------------------------------------------------------------
(* Bounds of the model *)

\* largest modulus size in bytes among the keys
MaxK == 12
\* longest message handed to encrypt
MaxMsgLen == 2
\* most 0x00 bytes the random source returns during one call
MaxZeroDraws == 2

(* Program constants *)

\* bits per byte in ceil_div(modBits,8)
BitsPerByte == 8
\* mLen > k-11
Overhead == 11
\* sep<10
MinSep == 10
\* k-mLen-3
Framing == 3
\* em.find('\x00',2)
FindStart == 2

Base == 256

Max(a, b) == IF a >= b THEN a ELSE b

Zeros(n) == [i \in 1..Max(n, 0) |-> 0]

Fill(n, b) == [i \in 1..Max(n, 0) |-> b]

-----------------------------------------------------------------------------
(* Unbounded integers as canonical digit sequences.  The operators bind    *)
(* their operands to values (x \in {a}) before using them, so that an      *)
(* operand is evaluated once however often the body reads it.              *)

\* the digits of s from its first nonzero digit on
Strip(s) ==
    CHOOSE r \in
        { IF \A i \in 1..Len(x) : x[i] = 0 THEN <<>>
          ELSE SubSeq(x,
                      CHOOSE i \in 1..Len(x) :
                          x[i] # 0 /\ \A j \in 1..(i - 1) : x[j] = 0,
                      Len(x)) : x \in {s} } : TRUE

PadTo(s, len) == Zeros(len - Len(s)) \o s

\* a < b
BigLess(a, b) ==
    \E x \in {a}, y \in {b} :
        IF Len(x) # Len(y) THEN Len(x) < Len(y)
        ELSE \E i \in 1..Len(x) :
                x[i] < y[i] /\ \A j \in 1..(i - 1) : x[j] = y[j]

\* x + y for digit strings of one length: the carry into digit i comes from
\* the nearest lower digit pair that overflows, through pairs summing to 255
AddDigits(x, y) ==
    LET L == Len(x)
        carry(i) == IF \E j \in (i + 1)..L :
                          /\ x[j] + y[j] >= Base
                          /\ \A m \in (i + 1)..(j - 1) : x[m] + y[m] = Base - 1
                    THEN 1 ELSE 0
    IN  (IF carry(0) = 1 THEN <<1>> ELSE <<>>)
        \o [i \in 1..L |-> (x[i] + y[i] + carry(i)) % Base]

\* a + b
BigAdd(a, b) ==
    CHOOSE r \in
        { Strip(AddDigits(x, y)) :
            x \in {PadTo(a, Max(Len(a), Len(b)))},
            y \in {PadTo(b, Max(Len(a), Len(b)))} } : TRUE

\* x - y for digit strings of one length, x >= y
SubDigits(x, y) ==
    LET L == Len(x)
        borrow(i) == IF \E j \in (i + 1)..L :
                           /\ x[j] < y[j]
                           /\ \A m \in (i + 1)..(j - 1) : x[m] = y[m]
                     THEN 1 ELSE 0
    IN  [i \in 1..L |-> (x[i] - y[i] - borrow(i) + Base) % Base]

\* a - b for a >= b
BigSub(a, b) ==
    CHOOSE r \in
        { Strip(SubDigits(x, y)) : x \in {a}, y \in {PadTo(b, Len(a))} } : TRUE

\* a mod n
RECURSIVE BigMod(_, _)
BigMod(a, n) ==
    CHOOSE r \in
        { IF BigLess(x, m) THEN x ELSE BigMod(BigSub(x, m), m) :
            x \in {a}, m \in {n} } : TRUE

-----------------------------------------------------------------------------
(* Crypto.Util.number and the RSA key object *)

\* bytes_to_long
OS2IP(s) == Strip(s)

\* long_to_bytes: the shortest encoding, one 0x00 byte for the number 0
I2OSP(x) == IF x = <<>> THEN <<0>> ELSE x

RECURSIVE BitLen(_)
BitLen(d) == IF d = 0 THEN 0 ELSE 1 + BitLen(d \div 2)

\* Crypto.Util.number.size(N): the number of bits of N
size(n) == IF n = <<>> THEN 0
           ELSE BitsPerByte * (Len(n) - 1) + BitLen(Head(n))

ceil_div(a, b) == (a + b - 1) \div b

\* (x + e) mod n for x, e below n; the sum is bound to its value
AddMod(x, e, n) == CHOOSE r \in { BigMod(s, n) : s \in { BigAdd(x, e) } } : TRUE

\* the public transform: a permutation of 0..n-1, its argument reduced modulo
\* n first
publicTransform(ky, x) ==
    CHOOSE r \in { AddMod(v, ky.e, ky.n) : v \in { BigMod(x0, ky.n) : x0 \in {x} } } :
        TRUE

\* the private transform: the inverse permutation
privateTransform(ky, y) ==
    CHOOSE r \in { AddMod(v, d, ky.n) :
                     v \in { BigMod(y0, ky.n) : y0 \in {y} },
                     d \in { BigSub(ky.n, ky.e) } } : TRUE

\* key.encrypt(em, 0)[0]
keyEncrypt(ky, s) == I2OSP(publicTransform(ky, OS2IP(s)))

\* key.decrypt(ct), for a key that has its private half
keyDecrypt(ky, s) == I2OSP(privateTransform(ky, OS2IP(s)))

has_private(ky) == ky.priv

-----------------------------------------------------------------------------
(* encrypt *)

\* modBits = size(key.n); k = ceil_div(modBits,8)
ModulusBytes(ky) == ceil_div(size(ky.n), BitsPerByte)

\* a comparison that also rejects a message of exactly k-11 bytes
TooLong_Ge(ml, kk) == ml >= kk - Overhead

\* Step 1: if mLen > k-11
TooLong(ml, kk) == ml > kk - Overhead

\* a padding string one byte longer
PSLen_OneMore(kk, ml) == kk - ml - 2

\* the argument of randFunc in step 2a
PSLen(kk, ml) == kk - ml - Framing

\* a loop that compares with the character '0' instead of the byte 0x00
LoopCond_Char0(cc) == cc = 48

\* nonZeroRandByte.__call__: the condition of its while loop
LoopCond(cc) == cc = 0

\* a loop that draws a byte and does not assign it to c
Redrawn_Dropped(cc, b) == cc

\* nonZeroRandByte.__call__: the value of c after c=self.rf(1) returned b
Redrawn(cc, b) == b

\* a block without the 0x00 separator
Assemble_NoSep(p, msg) == <<0, 2>> \o p \o msg

\* Step 2b: em = '\x00\x02' + ps + '\x00' + message
Assemble(p, msg) == <<0, 2>> \o p \o <<0>> \o msg

\* a ciphertext that is not left-padded
LeftPadC_None(kk, m) == m

\* Step 3c of encrypt: c = '\x00'*(k-len(m)) + m
LeftPadC(kk, m) == Zeros(kk - Len(m)) \o m

-----------------------------------------------------------------------------
(* decrypt *)

\* a length check that lets longer ciphertexts through
BadLength_OnlyShorter(s, kk) == Len(s) < kk

\* Step 1: if len(ct) != k
BadLength(s, kk) == Len(s) # kk

\* Step 2c of decrypt: em = '\x00'*(k-len(m)) + m
LeftPadEm(kk, m) == Zeros(kk - Len(m)) \o m

\* str.find(b, start): lowest 0-based index >= start holding b, -1 if none
find(s, b, start) ==
    LET hits == {i \in start..(Len(s) - 1) : s[i + 1] = b}
    IN  IF hits = {} THEN -1
        ELSE CHOOSE i \in hits : \A j \in hits : i <= j

\* str.startswith(p)
startswith(s, p) == Len(s) >= Len(p) /\ SubSeq(s, 1, Len(p)) = p

\* a validation that also rejects a separator at index 10
ValidationFails_Le(e, sep) == ~startswith(e, <<0, 2>>) \/ sep <= MinSep

\* a validation without the prefix check
ValidationFails_NoPrefix(e, sep) == sep < MinSep

\* Step 3: not em.startswith('\x00\x02') or sep<10
ValidationFails(e, sep) == ~startswith(e, <<0, 2>>) \/ sep < MinSep

\* a slice that keeps the separator
AfterSep_KeepSep(e, sep) == SubSeq(e, sep + 1, Len(e))

\* Step 4: em[sep+1:]
AfterSep(e, sep) == SubSeq(e, sep + 2, Len(e))

Raised(what, called) ==
    [outcome |-> what, branch |-> "raise", value |-> <<>>, em |-> <<>>,
     sep |-> -1, keyCalled |-> called]

\* a decrypt that turns the key's capability error into the sentinel
decrypt_SwallowsErrors(s, ky, sent) ==
    LET kk == ModulusBytes(ky)
    IN  IF BadLength(s, kk) THEN Raised("ValueError", FALSE)
        ELSE IF ~has_private(ky)
        THEN [outcome |-> "return", branch |-> "sentinel", value |-> sent,
              em |-> <<>>, sep |-> -1, keyCalled |-> TRUE]
        ELSE LET m   == keyDecrypt(ky, s)
                 e   == LeftPadEm(kk, m)
                 sep == find(e, 0, FindStart)
             IN  IF ValidationFails(e, sep)
                 THEN [outcome |-> "return", branch |-> "sentinel",
                       value |-> sent, em |-> e, sep |-> sep,
                       keyCalled |-> TRUE]
                 ELSE [outcome |-> "return", branch |-> "message",
                       value |-> AfterSep(e, sep), em |-> e, sep |-> sep,
                       keyCalled |-> TRUE]

\* decrypt(ct, key, sentinel): its outcome, with the locals it computed
decrypt(s, ky, sent) ==
    LET kk == ModulusBytes(ky)
    IN  IF BadLength(s, kk) THEN Raised("ValueError", FALSE)
        ELSE IF ~has_private(ky) THEN Raised("TypeError", TRUE)
        ELSE LET m   == keyDecrypt(ky, s)
                 e   == LeftPadEm(kk, m)
                 sep == find(e, 0, FindStart)
             IN  IF ValidationFails(e, sep)
                 THEN [outcome |-> "return", branch |-> "sentinel",
                       value |-> sent, em |-> e, sep |-> sep,
                       keyCalled |-> TRUE]
                 ELSE [outcome |-> "return", branch |-> "message",
                       value |-> AfterSep(e, sep), em |-> e, sep |-> sep,
                       keyCalled |-> TRUE]

NoDec == [outcome |-> "none", branch |-> "none", value |-> <<>>, em |-> <<>>,
          sep |-> -1, keyCalled |-> FALSE]

-----------------------------------------------------------------------------
(* Inputs *)

KSizes == (Overhead - 1)..MaxK

Tops == {1, 200}

Modulus(kk, top) == <<top>> \o Zeros(kk - 2) \o <<1>>

\* shifts of the transform: the identity, one that clears the 0x02 byte of an
\* encoded block, one that sends the block 00 02 01..01 00 to the number 0
Shifts(n, kk) ==
    { <<>>,
      BigSub(n, <<2>> \o Zeros(kk - 2)),
      BigSub(n, <<2>> \o Fill(kk - 3, 1) \o <<0>>) }

\* keys with both halves, and public-only keys
Keys == UNION { { [n |-> Modulus(kk, t), e |-> s, priv |-> TRUE] :
                    s \in Shifts(Modulus(kk, t), kk) } :
                kk \in KSizes, t \in Tops }
        \cup { [n |-> Modulus(kk, 200), e |-> <<>>, priv |-> FALSE] :
                  kk \in KSizes }

MsgBytes == {0, 65}

SeqsUpTo(S, n) == UNION { [1..i -> S] : i \in 0..n }

Messages == SeqsUpTo(MsgBytes, MaxMsgLen)

Sentinels == { <<>>, <<83, 69>> }

\* bytes one randFunc(1) call may return
RandBytes == {0, 1, 255}

\* bytes of the string randFunc(k-mLen-3) may return
BulkBytes == {0, 1}

ZeroCount(s) == Cardinality({i \in 1..Len(s) : s[i] = 0})

BulkDraws(n) == { r \in [1..n -> BulkBytes] : ZeroCount(r) <= MaxZeroDraws }

\* blocks a sender may encode: first two bytes b0 b1, nonzero filler up to
\* 0-based index s, a 0x00 there (none when s = kk), then bytes t
Block(kk, b0, b1, s, t) ==
    [i \in 1..kk |-> IF i = 1 THEN b0
                     ELSE IF i = 2 THEN b1
                     ELSE IF i - 1 < s THEN 7
                     ELSE IF i - 1 = s THEN 0
                     ELSE t]

Blocks(kk) == { Block(kk, b0, b1, s, t) :
                  b0 \in {0, 1}, b1 \in {2, 3}, s \in 2..kk, t \in MsgBytes }

\* ciphertexts handed to decrypt: of a wrong length, encodings of the blocks
\* above under the key, and two whose number is not below the modulus
Ciphertexts(ky) ==
    LET kk == ModulusBytes(ky)
    IN  { <<>>, Zeros(kk - 1), Zeros(kk + 1),
          PadTo(ky.n, kk), PadTo(BigAdd(ky.n, <<2, 0>>), kk) }
        \cup { PadTo(keyEncrypt(ky, b), kk) : b \in Blocks(kk) }

-----------------------------------------------------------------------------
(* Behaviour *)

Init ==
    /\ key \in Keys
    /\ pc = "idle"
    /\ message = <<>>
    /\ k = 0
    /\ mLen = 0
    /\ raw = <<>>
    /\ cur = -1
    /\ ps = <<>>
    /\ em = <<>>
    /\ c = <<>>
    /\ encOutcome = "none"
    /\ drawn = 0
    /\ zeroDraws = 0
    /\ ct = <<>>
    /\ sentinel = <<>>
    /\ dec = NoDec
    /\ chained = FALSE

decVars == <<ct, sentinel, dec, chained>>

\* encrypt is called: lines 96-102
EncryptCall(msg) ==
    /\ message' = msg
    /\ k' = ModulusBytes(key)
    /\ mLen' = Len(msg)
    /\ IF TooLong(Len(msg), ModulusBytes(key))
       THEN pc' = "enc_raised" /\ encOutcome' = "ValueError"
       ELSE pc' = "enc_ps" /\ encOutcome' = "none"
    /\ UNCHANGED <<key, raw, cur, ps, em, c, drawn, zeroDraws>>
    /\ UNCHANGED decVars

\* randFunc(k-mLen-3) returns the string r
RandFuncBulk(r) ==
    /\ raw' = r
    /\ drawn' = drawn + Len(r)
    /\ zeroDraws' = zeroDraws + ZeroCount(r)
    /\ pc' = "enc_map"
    /\ UNCHANGED <<key, message, k, mLen, cur, ps, em, c, encOutcome>>
    /\ UNCHANGED decVars

\* map() calls nonZeroRandByte.__call__ on the next byte of the string
CallEnter ==
    /\ pc = "enc_map"
    /\ raw # <<>>
    /\ cur' = Head(raw)
    /\ raw' = Tail(raw)
    /\ pc' = "enc_loop"
    /\ UNCHANGED <<key, message, k, mLen, ps, em, c, encOutcome, drawn, zeroDraws>>
    /\ UNCHANGED decVars

\* one iteration of while c=='\x00': c=self.rf(1), rf(1) returning b
LoopRedraw(b) ==
    /\ pc = "enc_loop"
    /\ LoopCond(cur)
    /\ b = 0 => zeroDraws < MaxZeroDraws
    /\ drawn < k + MaxZeroDraws
    /\ cur' = Redrawn(cur, b)
    /\ drawn' = drawn + 1
    /\ zeroDraws' = IF b = 0 THEN zeroDraws + 1 ELSE zeroDraws
    /\ UNCHANGED <<key, pc, message, k, mLen, raw, ps, em, c, encOutcome>>
    /\ UNCHANGED decVars

\* the loop ends: return c, which map() appends to its result
CallReturn ==
    /\ pc = "enc_loop"
    /\ ~LoopCond(cur)
    /\ ps' = Append(ps, cur)
    /\ cur' = -1
    /\ pc' = "enc_map"
    /\ UNCHANGED <<key, message, k, mLen, raw, em, c, encOutcome, drawn, zeroDraws>>
    /\ UNCHANGED decVars

\* lines 109-116 after map() is through
EncryptFinish ==
    /\ pc = "enc_map"
    /\ raw = <<>>
    /\ em' = Assemble(ps, message)
    /\ c' = LeftPadC(k, keyEncrypt(key, Assemble(ps, message)))
    /\ encOutcome' = "return"
    /\ pc' = "enc_done"
    /\ UNCHANGED <<key, message, k, mLen, raw, cur, ps, drawn, zeroDraws>>
    /\ UNCHANGED decVars

encVars == <<message, k, mLen, raw, cur, ps, em, c, encOutcome, drawn, zeroDraws>>

\* decrypt is called on a ciphertext of the caller's choosing
DecryptCall(s, sent) ==
    /\ ct' = s
    /\ sentinel' = sent
    /\ dec' = decrypt(s, key, sent)
    /\ chained' = FALSE
    /\ pc' = "dec_done"
    /\ UNCHANGED key
    /\ UNCHANGED encVars

\* decrypt is called on the ciphertext encrypt returned
DecryptEncrypted(sent) ==
    /\ ct' = c
    /\ sentinel' = sent
    /\ dec' = decrypt(c, key, sent)
    /\ chained' = TRUE
    /\ pc' = "dec_done"
    /\ UNCHANGED key
    /\ UNCHANGED encVars

Next ==
    \/ pc = "idle" /\ \E msg \in Messages : EncryptCall(msg)
    \/ pc = "enc_ps" /\ \E r \in BulkDraws(PSLen(k, mLen)) : RandFuncBulk(r)
    \/ CallEnter
    \/ \E b \in RandBytes : LoopRedraw(b)
    \/ CallReturn
    \/ EncryptFinish
    \/ pc = "idle" /\ \E s \in Ciphertexts(key), sent \in Sentinels :
                           DecryptCall(s, sent)
    \/ pc = "enc_done" /\ \E sent \in Sentinels : DecryptEncrypted(sent)

Spec == Init /\ [][Next]_vars

\* the code runs on, and a redraw eventually returns a nonzero byte
FairSpec ==
    /\ Init /\ [][Next]_vars
    /\ WF_vars(pc = "enc_ps" /\ \E r \in BulkDraws(PSLen(k, mLen)) : RandFuncBulk(r))
    /\ WF_vars(CallEnter)
    /\ WF_vars(CallReturn)
    /\ WF_vars(EncryptFinish)
    /\ WF_vars(\E b \in RandBytes \ {0} : LoopRedraw(b))

-----------------------------------------------------------------------------
(* Properties *)

\* the modulus size in bytes, read off the modulus itself
KeyBytes == Len(key.n)

DecDone == pc = "dec_done"

\* encrypt has returned a ciphertext
EncReturned == pc = "enc_done" \/ (DecDone /\ chained)

\* the k-byte big-endian string of the private transform's result
DecodedBlock == PadTo(privateTransform(key, OS2IP(ct)), KeyBytes)

WrongPrefix(b) == ~(Len(b) >= 2 /\ b[1] = 0 /\ b[2] = 2)

NoZeroByte(b) == \A i \in 3..Len(b) : b[i] # 0

\* some 0x00 byte at a 0-based index in 2..9
EarlySeparator(b) == \E i \in 3..Len(b) : b[i] = 0 /\ i - 1 < 10

StructurallyInvalid(b) == WrongPrefix(b) \/ NoZeroByte(b) \/ EarlySeparator(b)

\* one ciphertext of each kind of failure under the session's key
Probes ==
    { PadTo(keyEncrypt(key, Block(KeyBytes, 0, 3, 10, 65)), KeyBytes),
      PadTo(keyEncrypt(key, Block(KeyBytes, 0, 2, KeyBytes, 65)), KeyBytes),
      PadTo(keyEncrypt(key, Block(KeyBytes, 0, 2, 2, 65)), KeyBytes) }

\* C1: with a key holding both halves, decrypting the ciphertext encrypt
\* returned for a message yields exactly that message, whatever the random
\* source returned and whatever the sentinel is.
C1_RoundTrip ==
    (DecDone /\ chained /\ key.priv) =>
        (dec.outcome = "return" /\ dec.value = message)

C1_Witness ==
    /\ DecDone /\ chained /\ key.priv
    /\ Len(message) = KeyBytes - 11
    /\ message = <<0>>
    /\ zeroDraws > 0
    /\ sentinel # <<>>
    /\ dec.value = message

\* C2: with the private transform and a k-byte ciphertext decrypt never raises,
\* and whenever the decoded block fails validation the result is the sentinel
\* itself, the same result as for a ciphertext failing any other check.
C2_FailuresCollapse ==
    (DecDone /\ key.priv /\ Len(ct) = KeyBytes) =>
        /\ dec.outcome = "return"
        /\ StructurallyInvalid(DecodedBlock) =>
              /\ dec.value = sentinel
              /\ \A p \in Probes :
                    LET r == decrypt(p, key, sentinel)
                    IN  r.outcome = dec.outcome /\ r.value = dec.value

C2_Witness ==
    /\ DecDone /\ key.priv /\ Len(ct) = KeyBytes
    /\ DecodedBlock[1] = 0 /\ DecodedBlock[2] = 3
    /\ ~NoZeroByte(DecodedBlock) /\ ~EarlySeparator(DecodedBlock)
    /\ sentinel # <<>>
    /\ dec.outcome = "return" /\ dec.value = sentinel

\* C3: decrypt takes the sentinel branch exactly when the decoded block has a
\* wrong prefix, no 0x00 byte from index 2 on, or its first such byte before
\* index 10; otherwise it returns the bytes after that first 0x00 byte.
C3_Validation ==
    (DecDone /\ key.priv /\ Len(ct) = KeyBytes) =>
        LET b == DecodedBlock
        IN  /\ dec.branch = "sentinel" <=> StructurallyInvalid(b)
            /\ dec.branch = "sentinel" => dec.value = sentinel
            /\ ~StructurallyInvalid(b) =>
                  /\ dec.branch = "message"
                  /\ \E i \in 3..Len(b) :
                        /\ b[i] = 0
                        /\ \A j \in 3..(i - 1) : b[j] # 0
                        /\ dec.value = SubSeq(b, i + 1, Len(b))

C3_Witness ==
    /\ DecDone /\ ~chained /\ key.priv /\ Len(ct) = KeyBytes
    /\ KeyBytes = 12
    /\ DecodedBlock[11] = 0
    /\ \A j \in 3..10 : DecodedBlock[j] # 0
    /\ dec.branch = "message"
    /\ dec.value = <<65>>

\* C4 as stated: decrypt with a key lacking the private transform fails with
\* the capability error (TypeError) for every ciphertext.
C4_Original ==
    (DecDone /\ ~key.priv) => dec.outcome = "TypeError"

\* C4 amended: decrypt with a key lacking the private transform never returns;
\* it fails with TypeError when the ciphertext has exactly k bytes and with
\* the length error (ValueError) otherwise.
C4_NoPrivateKey ==
    (DecDone /\ ~key.priv) =>
        /\ dec.branch = "raise"
        /\ Len(ct) = KeyBytes => dec.outcome = "TypeError"
        /\ Len(ct) # KeyBytes => dec.outcome = "ValueError"

C4_Witness ==
    /\ DecDone /\ ~key.priv /\ ~chained
    /\ Len(ct) = KeyBytes
    /\ sentinel # <<>>
    /\ dec.outcome = "TypeError"

\* C5: a ciphertext whose length is not k makes decrypt fail with the length
\* error under every key and sentinel, before the key's decrypt is called.
C5_WrongLength ==
    (DecDone /\ Len(ct) # KeyBytes) =>
        /\ dec.outcome = "ValueError"
        /\ dec.branch = "raise"
        /\ ~dec.keyCalled

C5_Witness ==
    /\ DecDone /\ key.priv
    /\ Len(ct) = KeyBytes + 1
    /\ dec.outcome = "ValueError"
    /\ ~dec.keyCalled

\* encrypt has been called
EncCalled ==
    pc \in {"enc_raised", "enc_ps", "enc_map", "enc_loop", "enc_done"}
    \/ (DecDone /\ chained)

\* C6: encrypt raises the too-long error exactly when the message is longer
\* than k-11 bytes, and then returns no ciphertext.
C6_MessageTooLong ==
    EncCalled =>
        /\ (pc = "enc_raised") <=> (Len(message) > KeyBytes - 11)
        /\ (pc = "enc_raised") <=> (encOutcome = "ValueError")
        /\ encOutcome = "ValueError" => (c = <<>> /\ em = <<>>)
        /\ (KeyBytes < 11) => encOutcome = "ValueError"

C6_Witness ==
    /\ pc = "enc_done"
    /\ Len(message) = KeyBytes - 11
    /\ Len(message) > 0
    /\ encOutcome = "return"
    /\ Len(c) > 0

\* C7: the ciphertext encrypt returns and the block decrypt validates are
\* exactly k bytes: the transform's result, big-endian, zero-filled on the left.
C7_FixedLength ==
    /\ EncReturned =>
          (Len(c) = KeyBytes /\ Strip(c) = publicTransform(key, OS2IP(em)))
    /\ (DecDone /\ dec.outcome = "return") =>
          (Len(dec.em) = KeyBytes
           /\ Strip(dec.em) = privateTransform(key, OS2IP(ct)))

C7_Witness ==
    /\ DecDone /\ chained /\ key.priv
    /\ c = Zeros(KeyBytes)
    /\ Len(dec.em) = KeyBytes
    /\ dec.em[1] = 0

\* C8: the block encrypt hands to the public transform is k bytes: 0x00, 0x02,
\* k-mLen-3 >= 8 nonzero padding bytes, 0x00, then the message.
C8_BlockLayout ==
    EncReturned =>
        LET n == Len(message)
        IN  /\ Len(em) = KeyBytes
            /\ em[1] = 0 /\ em[2] = 2
            /\ KeyBytes - n - 3 >= 8
            /\ \A i \in 3..(KeyBytes - n - 1) : em[i] # 0
            /\ em[KeyBytes - n] = 0
            /\ SubSeq(em, KeyBytes - n + 1, KeyBytes) = message

C8_Witness ==
    /\ pc = "enc_done"
    /\ zeroDraws >= 2
    /\ Len(message) = 1
    /\ \E i \in 3..Len(em) : em[i] = 255

\* C9: a successful encrypt has drawn k-mLen-3 bytes plus one byte for every
\* 0x00 byte the random source returned; a rejected call has drawn none.
C9_EntropyConsumed ==
    /\ EncReturned => drawn = (KeyBytes - Len(message) - 3) + zeroDraws
    /\ pc = "enc_raised" => (drawn = 0 /\ zeroDraws = 0)

C9_Witness ==
    /\ pc = "enc_done"
    /\ zeroDraws >= 2
    /\ drawn = KeyBytes - Len(message) - 1

\* how far the session has got; every step but a redraw raises it
Progress ==
    CASE pc = "idle"       -> 0
      [] pc = "enc_raised" -> 1
      [] pc = "enc_ps"     -> 1
      [] pc = "enc_map"    -> 2 + 2 * Len(ps)
      [] pc = "enc_loop"   -> 3 + 2 * Len(ps)
      [] pc = "enc_done"   -> 4 + 2 * Len(ps)
      [] OTHER             -> 5 + 2 * Len(ps)

InLoopOnZero == pc = "enc_loop" /\ cur = 0

\* C10: once a message is accepted encrypt returns a ciphertext, given that
\* redraws do not return 0x00 forever; while they do the call stays in
\* the loop; and no other step of encrypt or decrypt repeats.
C10_Termination ==
    /\ (pc = "enc_ps") ~> (pc = "enc_done")
    /\ [][(InLoopOnZero /\ cur' = 0) => (pc' = "enc_loop" /\ ps' = ps)]_vars
    /\ [][(InLoopOnZero /\ pc' = "enc_loop" /\ drawn' = drawn + 1)
            \/ Progress' > Progress]_vars

C10_Witness ==
    /\ pc = "enc_done"
    /\ zeroDraws >= 1
    /\ drawn > Len(ps)
    /\ encOutcome = "return"

====
